---- MODULE Spec2Model ----
(***************************************************************************)
(* Emochat backend: the emotion / notification pipeline.                   *)
(*                                                                         *)
(* Numbers.  The provider's raw sentiment score and magnitude are carried  *)
(* in units of 1/10000; every value that went through toFixed(3) (the      *)
(* classification result, the stored sample, the trigger decision) is in   *)
(* thousandths: -600 is -0.6, 1000 is 1.0.                                 *)
(*                                                                         *)
(* Text.  A JavaScript value given as text is a record [type, words]: a    *)
(* string is the sequence of its words ("" is <<>>), a word made of blanks *)
(* is " ".  String.includes(keyword) is membership of the keyword among    *)
(* the words: the vocabulary used below has no word that properly contains *)
(* a keyword.                                                              *)
(***************************************************************************)
EXTENDS Integers, Sequences, FiniteSets, TLC

\* ------------------------------------------------------------------ bounds
MaxSamples == 2
MaxMsgs == 2
MaxWords == 4
MaxDays == 2
MaxTrendCalls == 3

\* ----------------------------------------------------------------- helpers
Abs(x) == IF x < 0 THEN -x ELSE x
Min(a, b) == IF a < b THEN a ELSE b
Range(s) == {s[i] : i \in 1..Len(s)}
Null == [null |-> TRUE]

Str(ws) == [type |-> "string", words |-> ws]
Num42 == [type |-> "number", words |-> <<>>]
IsString(t) == t.type = "string"
\* String.prototype.trim(), then .length
TrimLength(t) == Len(SelectSeq(t.words, LAMBDA w : w # " "))
\* express-validator notEmpty(): the value, as a string, has length > 0
notEmpty(t) == IF IsString(t) THEN Len(t.words) > 0 ELSE TRUE

\* Number.prototype.toFixed(3) of a value in 1/10000, then parseFloat:
\* thousandths, a tie rounded away from zero
toFixed3(x) == IF x < 0 THEN -((-x + 5) \div 10) ELSE (x + 5) \div 10

\* ------------------------------------------------------ utils/emotionAPI.js
EmotionNames == <<"joy", "sadness", "anger", "fear", "surprise", "disgust", "neutral">>

\* the band 'score > -0.6' with its lower end included
mapScoreToEmotion_Inclusive(score, magnitude) ==
    IF magnitude < 3000 THEN "neutral"
    ELSE IF score > 6000 THEN (IF magnitude > 8000 THEN "joy" ELSE "surprise")
    ELSE IF score > 2000 THEN "joy"
    ELSE IF score > -2000 THEN "neutral"
    ELSE IF score >= -6000 THEN (IF magnitude > 7000 THEN "sadness" ELSE "fear")
    ELSE (IF magnitude > 8000 THEN "anger" ELSE "sadness")

mapScoreToEmotion(score, magnitude) ==
    IF magnitude < 3000 THEN "neutral"
    ELSE IF score > 6000 THEN (IF magnitude > 8000 THEN "joy" ELSE "surprise")
    ELSE IF score > 2000 THEN "joy"
    ELSE IF score > -2000 THEN "neutral"
    ELSE IF score > -6000 THEN (IF magnitude > 7000 THEN "sadness" ELSE "fear")
    ELSE (IF magnitude > 8000 THEN "anger" ELSE "sadness")

emotionPatterns ==
    [e \in Range(EmotionNames) |->
       CASE e = "joy" -> {"happy", "excited", "great", "awesome", "love", "amazing",
                          ":blush:", ":smiley:", ":tada:", ":heart:"}
         [] e = "sadness" -> {"sad", "disappointed", "down", "depressed", "crying",
                              ":cry:", ":sob:", ":broken_heart:"}
         [] e = "anger" -> {"angry", "mad", "furious", "annoyed", "hate", "frustrated",
                            ":angry:", ":rage:", ":cursing:"}
         [] e = "fear" -> {"scared", "afraid", "worried", "anxious", "nervous", "terrified",
                           ":fearful:", ":cold_sweat:"}
         [] e = "surprise" -> {"wow", "amazing", "unbelievable", "shocking", "incredible",
                               ":astonished:", ":exploding_head:", ":scream:"}
         [] e = "disgust" -> {"disgusting", "gross", "awful", "terrible", "horrible",
                              ":nauseated:", ":vomiting:"}
         [] e = "neutral" -> {"okay", "fine", "normal", "regular", "standard"}]

\* keywords.reduce(count + (lowerText.includes(keyword) ? 1 : 0), 0)
KeywordScore(text, e) == Cardinality(emotionPatterns[e] \cap Range(text.words))

\* the for..of loop over Object.entries(emotionPatterns), after i entries:
\* <<maxScore, detectedEmotion>>
RECURSIVE Detect(_, _)
Detect(text, i) ==
    IF i = 0 THEN <<0, "neutral">>
    ELSE LET prev == Detect(text, i - 1)
             score == KeywordScore(text, EmotionNames[i])
         IN IF score > prev[1] THEN <<score, EmotionNames[i]>> ELSE prev

fallbackEmotionAnalysis(text) ==
    IF ~IsString(text)
    THEN [raised |-> TRUE, value |-> Null]          \* text.toLowerCase is not a function
    ELSE LET d == Detect(text, Len(EmotionNames))
             maxScore == d[1]
             detectedEmotion == d[2]
             sentimentScore ==
                 IF maxScore > 0
                 THEN IF detectedEmotion \in {"joy", "surprise"} THEN 300 + maxScore * 200
                      ELSE IF detectedEmotion \in {"sadness", "anger", "fear", "disgust"}
                           THEN -300 - maxScore * 200
                           ELSE 0
                 ELSE 0
         IN [raised |-> FALSE,
             value |-> [emotion |-> detectedEmotion,
                        confidence |-> IF maxScore > 0 THEN Min(maxScore * 300, 800) ELSE 100,
                        score |-> sentimentScore,
                        magnitude |-> IF maxScore > 0 THEN Min(maxScore * 400, 1000) ELSE 100,
                        processedBy |-> "local-fallback"]]

\* What client.analyzeSentiment does: it rejects, or resolves to a
\* documentSentiment [score, magnitude] (raw, 1/10000)
ProviderFailure == [ok |-> FALSE, score |-> 0, magnitude |-> 0]
ProviderSentiment(s, m) == [ok |-> TRUE, score |-> s, magnitude |-> m]

\* a provider failure rethrown instead of handed to the fallback
analyzeEmotion_Rethrow(text, provider) ==
    IF ~IsString(text) \/ TrimLength(text) = 0
    THEN fallbackEmotionAnalysis(text)
    ELSE IF ~provider.ok
    THEN [raised |-> TRUE, value |-> Null]
    ELSE [raised |-> FALSE,
          value |-> [emotion |-> mapScoreToEmotion(provider.score, provider.magnitude),
                     confidence |-> (Min(provider.magnitude * Abs(provider.score), 100000000)
                                       + 50000) \div 100000,
                     score |-> toFixed3(provider.score),
                     magnitude |-> toFixed3(provider.magnitude),
                     processedBy |-> "google-cloud-nlp"]]

analyzeEmotion(text, provider) ==
    IF ~IsString(text) \/ TrimLength(text) = 0 \/ ~provider.ok
    THEN fallbackEmotionAnalysis(text)               \* the catch block
    ELSE [raised |-> FALSE,
          value |-> [emotion |-> mapScoreToEmotion(provider.score, provider.magnitude),
                     confidence |-> (Min(provider.magnitude * Abs(provider.score), 100000000)
                                       + 50000) \div 100000,
                     score |-> toFixed3(provider.score),
                     magnitude |-> toFixed3(provider.magnitude),
                     processedBy |-> "google-cloud-nlp"]]

\* ------------------------------------------------------------ the store
Users == {"u1", "u2"}
Rooms == {"rp", "rx"}
\* rp: a private room of u1 and u2; rx: a group room u1 is not in
RoomType == [x \in Rooms |-> IF x = "rx" THEN "group" ELSE "private"]
Participants == [x \in Rooms |-> IF x = "rx" THEN <<"u2">> ELSE <<"u1", "u2">>]
Reqs == {1}
\* the users whose requests are followed
Authors == {"u1"}

\* What the clients send and what the sentiment provider answers
SendContents == {Str(<<>>), Str(<<"sad", "depressed">>)}
MessageTypes == {"text", "image"}
AwsTexts == {Str(<<"hello">>), Num42}
AwsMessageIds == {0, 1}
AnalyzeTexts == {Str(<<>>), Str(<<"sad", "depressed">>)}
AnalyzeMessageIds == {0, 1}
SocketMessageIds == {1}
ProviderOutcomes ==
    {ProviderFailure, ProviderSentiment(-5996, 9000), ProviderSentiment(-5990, 9000),
     ProviderSentiment(-9000, 2000)}
\* The texts and the provider answers analyzeEmotion is called with directly
Vocabulary == {"sad", "disappointed", "down", "depressed", " ", "hello"}
ClassifyTexts ==
    {Num42} \cup {Str(ws) : ws \in UNION {[1..n -> Vocabulary] : n \in 0..MaxWords}}
ClassifyOutcomes ==
    {ProviderFailure}
      \cup {ProviderSentiment(s, m) :
              s \in {-10000, -6001, -6000, -5999, -2001, -2000, -1999,
                     2000, 2001, 6000, 6001, 10000},
              m \in {2999, 3000, 7000, 7001, 8000, 8001}}
\* What the push provider answers for one token
TokenOutcomes == {"success", "invalid", "transient"}

VARIABLES
    req,              \* per request slot: the handler's position and locals
    samples,          \* Emotion collection, in creation order
    messages,         \* Message collection, in creation order
    fcmTokens,        \* User.fcmTokens, per user
    profile,          \* User.emotionalProfile, per user
    lastMessage,      \* ChatRoom.lastMessage, per room (0: none)
    supportAttempts,  \* per sample: how often the dispatcher was invoked with its support payload
    received,         \* 'receive-message' payloads delivered to room subscribers
    push,             \* User.preferences.notifications.push, per user
    registered,       \* per user: the token values in the order of their latest
                      \* addFCMToken, and whether removeFCMToken ever ran
    emotionTrends,    \* ChatRoom.emotionalContext.emotionTrends, per room
    today,            \* the calendar day of new Date()
    trendCall         \* the latest call of updateEmotionTrends and how many there were

vars == <<req, samples, messages, fcmTokens, profile, lastMessage, supportAttempts,
          received, push, registered, emotionTrends, today, trendCall>>

\* no call of updateEmotionTrends yet
NoCall == [n |-> 0, room |-> "null", emotion |-> "null", sentiment |-> 0]
\* the rooms have no trend bucket
InitTrends ==
    /\ emotionTrends = [x \in Rooms |-> <<>>]
    /\ today = 1
    /\ trendCall = NoCall

\* fcmTokens[].lastUsed is "now" when it was written by the latest request on
\* the user's registry, "earlier" when it is older
Device(token, isActive) == [token |-> token, isActive |-> isActive, lastUsed |-> "earlier"]

NoReq ==
    [kind |-> "none", pc |-> "idle", userId |-> "u1", roomId |-> "rp",
     messageType |-> "text", content |-> Str(<<>>), messageId |-> 0,
     emotionData |-> Null, savedEmotion |-> 0, tokens |-> <<>>, message |-> 0,
     status |-> 0, triggered |-> "undecided",
     successCount |-> 0, failureCount |-> 0, invalidTokens |-> <<>>,
     \* history of the request, read by the properties only
     provider |-> ProviderFailure,
     providerOk |-> TRUE, raised |-> FALSE, trigger |-> "undecided",
     storeFault |-> FALSE, markFault |-> FALSE, outcomes |-> <<>>, invalidReported |-> {},
     supportSent |-> FALSE, supportTokens |-> <<>>, notificationSent |-> FALSE,
     sampleFault |-> FALSE, historyFault |-> FALSE, appended |-> FALSE,
     dominantSet |-> FALSE,
     notifyInvoked |-> FALSE, notifyTokens |-> <<>>]

Init ==
    /\ req = [r \in Reqs |-> NoReq]
    /\ samples = <<>>
    /\ messages = <<>>
    /\ fcmTokens = [u \in Users |->
                      IF u = "u1" THEN <<Device("tA", TRUE), Device("tB", TRUE)>>
                      ELSE <<Device("tC", TRUE)>>]
    /\ profile = [u \in Users |-> [dominantEmotion |-> "neutral", averageSentiment |-> 0,
                                   emotionHistory |-> <<>>]]
    /\ lastMessage = [x \in Rooms |-> 0]
    /\ supportAttempts = <<>>
    /\ received = {}
    /\ push = [u \in Users |-> TRUE]
    /\ registered = [u \in Users |->
                       [order |-> IF u = "u1" THEN <<"tA", "tB">> ELSE <<"tC">>,
                        removed |-> FALSE]]
    /\ InitTrends

\* ------------------------------------------------------------ models/*.js
\* the registry as a later request finds it: every lastUsed is in the past
Earlier(tokens) == [i \in 1..Len(tokens) |-> [tokens[i] EXCEPT !.lastUsed = "earlier"]]

TokenCapacity == 5
\* the oldest entries kept instead of the newest
addFCMToken_KeepOldest(tokens, token) ==
    LET pushed == Append(SelectSeq(tokens, LAMBDA t : t.token # token),
                         [token |-> token, isActive |-> TRUE, lastUsed |-> "now"])
    IN IF Len(pushed) > TokenCapacity
       THEN SubSeq(pushed, 1, TokenCapacity)
       ELSE pushed

\* the token pushed without removing its existing entry
addFCMToken_NoFilter(tokens, token) ==
    LET pushed == Append(tokens, [token |-> token, isActive |-> TRUE, lastUsed |-> "now"])
    IN IF Len(pushed) > TokenCapacity
       THEN SubSeq(pushed, Len(pushed) - TokenCapacity + 1, Len(pushed))
       ELSE pushed

\* userSchema.methods.addFCMToken
addFCMToken(tokens, token) ==
    LET pushed == Append(SelectSeq(tokens, LAMBDA t : t.token # token),
                         [token |-> token, isActive |-> TRUE, lastUsed |-> "now"])
    IN IF Len(pushed) > TokenCapacity
       THEN SubSeq(pushed, Len(pushed) - TokenCapacity + 1, Len(pushed))
       ELSE pushed

\* userSchema.methods.removeFCMToken
removeFCMToken(tokens, token) == SelectSeq(tokens, LAMBDA t : t.token # token)

\* every token returned, active or not
getActiveFCMTokens_All(tokens) == [i \in 1..Len(tokens) |-> tokens[i].token]

\* userSchema.methods.getActiveFCMTokens
getActiveFCMTokens(tokens) ==
    LET act == SelectSeq(tokens, LAMBDA t : t.isActive)
    IN [i \in 1..Len(act) |-> act[i].token]

\* the entry deleted instead of deactivated
deactivateFCMToken_Remove(tokens, token) ==
    SelectSeq(tokens, LAMBDA t : t.token # token)

\* userSchema.methods.deactivateFCMToken
deactivateFCMToken(tokens, token) ==
    LET hits == {i \in 1..Len(tokens) : tokens[i].token = token}
    IN IF hits = {} THEN tokens
       ELSE LET first == CHOOSE i \in hits : \A j \in hits : i <= j
            IN [tokens EXCEPT ![first].isActive = FALSE]

\* userSchema.methods.updateFCMTokenActivity
updateFCMTokenActivity(tokens, token) ==
    LET hits == {i \in 1..Len(tokens) : tokens[i].token = token}
    IN IF hits = {} THEN tokens
       ELSE LET first == CHOOSE i \in hits : \A j \in hits : i <= j
            IN [tokens EXCEPT ![first].isActive = TRUE, ![first].lastUsed = "now"]

HistoryCapacity == 100
\* userSchema.methods.addEmotionToHistory
\* the push without the shift
addEmotionToHistory_Unbounded(history, emotion, confidence) ==
    Append(history, [emotion |-> emotion, confidence |-> confidence])
addEmotionToHistory(history, emotion, confidence) ==
    LET pushed == Append(history, [emotion |-> emotion, confidence |-> confidence])
    IN IF Len(pushed) > HistoryCapacity THEN Tail(pushed) ELSE pushed

\* emotionSchema: the validators run by save()
EmotionProcessedBy == {"google-cloud-nlp", "local-analysis"}
EmotionValid(doc) ==
    /\ TrimLength(doc.text) > 0
    /\ doc.sentimentScore >= -1000 /\ doc.sentimentScore <= 1000
    /\ doc.magnitude >= 0
    /\ doc.emotion \in Range(EmotionNames)
    /\ doc.confidence >= 0 /\ doc.confidence <= 1000
    /\ doc.processedBy \in EmotionProcessedBy

\* messageSchema: the validators run by save()
MessageProcessedBy == {"google-nlp", "local-analysis", "manual"}
MessageValid(doc) ==
    /\ doc.receiver # "null"
    /\ TrimLength(doc.content) > 0
    /\ doc.messageType \in {"text", "image", "file", "emoji", "voice"}
    /\ \/ doc.emotion = Null
       \/ /\ doc.emotion.confidence >= 0 /\ doc.emotion.confidence <= 1000
          /\ doc.emotion.score >= -1000 /\ doc.emotion.score <= 1000
          /\ doc.emotion.magnitude >= 0
          /\ doc.emotion.processedBy \in MessageProcessedBy

\* --------------------------------------------------- config/firebase.js
\* What messaging.sendMulticast does for n tokens: it rejects, or resolves
\* to one outcome per token
DispatchResponses(n) ==
    {[ok |-> FALSE, outcomes |-> <<>>]}
      \cup {[ok |-> TRUE, outcomes |-> o] : o \in [1..n -> TokenOutcomes]}

sendNotificationToMultiple(tokens, response) ==
    IF Len(tokens) = 0 \/ ~response.ok
    THEN [raised |-> TRUE, successCount |-> 0, failureCount |-> 0, invalidTokens |-> <<>>]
    ELSE LET failed == {i \in 1..Len(tokens) : response.outcomes[i] # "success"}
             RECURSIVE Pick(_)
             Pick(i) == IF i = 0 THEN <<>>
                        ELSE IF i \in failed THEN Append(Pick(i - 1), tokens[i])
                        ELSE Pick(i - 1)
         IN [raised |-> FALSE,
             successCount |-> Len(tokens) - Cardinality(failed),
             failureCount |-> Cardinality(failed),
             invalidTokens |-> Pick(Len(tokens))]

\* the tokens for which the provider answered 'unregistered / invalid token'
ReportedInvalid(tokens, response) ==
    IF response.ok
    THEN {tokens[i] : i \in {j \in 1..Len(tokens) : response.outcomes[j] = "invalid"}}
    ELSE {}

\* ------------------------------------- POST /rooms/:roomId/messages (chat)
Idle(r) == req[r].pc \in {"idle", "done"}
At(r, kind, pc) == req[r].kind = kind /\ req[r].pc = pc
Goto(r, rec) == req' = [req EXCEPT ![r] = rec]
Respond(r, rec, status) == req' = [req EXCEPT ![r] = [rec EXCEPT !.pc = "done", !.status = status]]

\* the threshold test with the boundary left out
SendSupportTrigger_Strict(score) == score < -600
SendSupportTrigger(score) == score <= -600

\* validation, the room lookup, the receiver
StartSend(r, userId, roomId, messageType, content) ==
    /\ Idle(r)
    /\ LET me == [NoReq EXCEPT !.kind = "send", !.userId = userId, !.roomId = roomId,
                               !.messageType = messageType, !.content = content]
       IN IF ~notEmpty(content) THEN Respond(r, me, 400)
          ELSE IF userId \notin Range(Participants[roomId]) THEN Respond(r, me, 404)
          ELSE IF messageType = "text" /\ TrimLength(content) > 0
               THEN Goto(r, [me EXCEPT !.pc = "analyze"])
               ELSE Goto(r, [me EXCEPT !.pc = "saveMessage"])
    /\ UNCHANGED <<samples, messages, fcmTokens, profile, lastMessage, supportAttempts,
                   received, push, registered, emotionTrends, today, trendCall>>

\* emotionData = await analyzeEmotion(content)
SendAnalyze(r, provider) ==
    /\ At(r, "send", "analyze")
    /\ LET res == analyzeEmotion(req[r].content, provider)
           me == [req[r] EXCEPT !.providerOk = provider.ok, !.raised = res.raised]
       IN IF res.raised
          THEN Goto(r, [me EXCEPT !.pc = "saveMessage"])
          ELSE Goto(r, [me EXCEPT !.pc = "saveEmotion", !.emotionData = res.value])
    /\ UNCHANGED <<samples, messages, fcmTokens, profile, lastMessage, supportAttempts,
                   received, push, registered, emotionTrends, today, trendCall>>

\* new Emotion({...}); savedEmotion = await emotionRecord.save(); the threshold test
SendSaveEmotion(r, stored) ==
    /\ At(r, "send", "saveEmotion")
    /\ LET e == req[r].emotionData
           doc == [userId |-> req[r].userId, text |-> req[r].content,
                   sentimentScore |-> e.score, magnitude |-> e.magnitude,
                   emotion |-> e.emotion, confidence |-> e.confidence,
                   processedBy |-> e.processedBy, fcmNotificationSent |-> FALSE,
                   messageId |-> 0, roomId |-> req[r].roomId]
       IN IF EmotionValid(doc) /\ stored /\ Len(samples) < MaxSamples
          THEN /\ samples' = Append(samples, doc)
               /\ supportAttempts' = Append(supportAttempts, 0)
               /\ Goto(r, [req[r] EXCEPT
                             !.savedEmotion = Len(samples) + 1,
                             !.trigger = IF SendSupportTrigger(e.score) THEN "yes" ELSE "no",
                             !.pc = IF SendSupportTrigger(e.score) THEN "support"
                                    ELSE "saveMessage"])
          ELSE /\ Goto(r, [req[r] EXCEPT
                             !.pc = "saveMessage",
                             !.sampleFault = ~(stored /\ Len(samples) < MaxSamples)])
               /\ UNCHANGED <<samples, supportAttempts>>
    /\ UNCHANGED <<messages, fcmTokens, profile, lastMessage, received, push, registered, emotionTrends, today, trendCall>>

\* the dispatcher called without the test for an empty token list
SendSupport_Unguarded(r) ==
    /\ At(r, "send", "support")
    /\ LET tokens == getActiveFCMTokens(fcmTokens[req[r].userId])
       IN /\ Goto(r, [req[r] EXCEPT !.pc = "supportSent", !.tokens = tokens,
                                    !.supportSent = TRUE, !.supportTokens = tokens])
          /\ supportAttempts' =
               [supportAttempts EXCEPT ![req[r].savedEmotion] = @ + 1]
    /\ UNCHANGED <<samples, messages, fcmTokens, profile, lastMessage, received, push,
                   registered, emotionTrends, today, trendCall>>

\* user = await User.findById; fcmTokens = user.getActiveFCMTokens(); the
\* call of sendNotificationToMultiple when there is a token
SendSupport(r) ==
    /\ At(r, "send", "support")
    /\ LET tokens == getActiveFCMTokens(fcmTokens[req[r].userId])
       IN IF Len(tokens) > 0
          THEN /\ Goto(r, [req[r] EXCEPT !.pc = "supportSent", !.tokens = tokens,
                                         !.supportSent = TRUE, !.supportTokens = tokens])
               /\ supportAttempts' =
                    [supportAttempts EXCEPT ![req[r].savedEmotion] = @ + 1]
          ELSE /\ Goto(r, [req[r] EXCEPT !.pc = "saveMessage"])
               /\ UNCHANGED supportAttempts
    /\ UNCHANGED <<samples, messages, fcmTokens, profile, lastMessage, received, push, registered, emotionTrends, today, trendCall>>

\* the flag written whether the dispatcher returned or raised
SendSupportResult_MarkAlways(r) ==
    \E response \in DispatchResponses(Len(req[r].tokens)) :
      /\ At(r, "send", "supportSent")
      /\ LET res == sendNotificationToMultiple(req[r].tokens, response)
             me == [req[r] EXCEPT !.invalidReported = ReportedInvalid(req[r].tokens, response)]
         IN Goto(r, [me EXCEPT !.pc = "markSent", !.notificationSent = ~res.raised])
      /\ UNCHANGED <<samples, messages, fcmTokens, profile, lastMessage, supportAttempts,
                     received, push, registered, emotionTrends, today, trendCall>>

\* the push provider answers the support dispatch; its result is dropped
SendSupportResult(r) ==
    \E response \in DispatchResponses(Len(req[r].tokens)) :
      /\ At(r, "send", "supportSent")
      /\ LET res == sendNotificationToMultiple(req[r].tokens, response)
             me == [req[r] EXCEPT !.invalidReported = ReportedInvalid(req[r].tokens, response)]
         IN IF res.raised
            THEN Goto(r, [me EXCEPT !.pc = "saveMessage"])
            ELSE Goto(r, [me EXCEPT !.pc = "markSent", !.notificationSent = TRUE])
      /\ UNCHANGED <<samples, messages, fcmTokens, profile, lastMessage, supportAttempts,
                     received, push, registered, emotionTrends, today, trendCall>>

\* savedEmotion.fcmNotificationSent = true; await savedEmotion.save()
SendMarkSent(r, stored) ==
    /\ At(r, "send", "markSent")
    /\ samples' = IF stored
                  THEN [samples EXCEPT ![req[r].savedEmotion].fcmNotificationSent = TRUE]
                  ELSE samples
    /\ Goto(r, [req[r] EXCEPT !.pc = "saveMessage", !.markFault = ~stored])
    /\ UNCHANGED <<messages, fcmTokens, profile, lastMessage, supportAttempts,
                   received, push, registered, emotionTrends, today, trendCall>>

\* new Message({... emotion: emotionData}); await message.save()
SendSaveMessage(r, stored) ==
    /\ At(r, "send", "saveMessage")
    /\ LET others == SelectSeq(Participants[req[r].roomId], LAMBDA u : u # req[r].userId)
           receiverId == IF RoomType[req[r].roomId] = "private" /\ Len(others) > 0
                         THEN others[1] ELSE "null"
           doc == [sender |-> req[r].userId, receiver |-> receiverId,
                   content |-> req[r].content, messageType |-> req[r].messageType,
                   chatRoom |-> req[r].roomId, emotion |-> req[r].emotionData]
           written == stored /\ Len(messages) < MaxMsgs
       IN IF MessageValid(doc) /\ written
          THEN /\ messages' = Append(messages, doc)
               /\ Goto(r, [req[r] EXCEPT !.pc = "populate", !.message = Len(messages) + 1])
          ELSE /\ Respond(r, [req[r] EXCEPT !.storeFault = ~written], 500)
               /\ UNCHANGED messages
    /\ UNCHANGED <<samples, fcmTokens, profile, lastMessage, supportAttempts,
                   received, push, registered, emotionTrends, today, trendCall>>

\* await message.populate([...])
SendPopulate(r, ok) ==
    /\ At(r, "send", "populate")
    /\ IF ok THEN Goto(r, [req[r] EXCEPT !.pc = "link"])
       ELSE Respond(r, [req[r] EXCEPT !.storeFault = TRUE], 500)
    /\ UNCHANGED <<samples, messages, fcmTokens, profile, lastMessage, supportAttempts,
                   received, push, registered, emotionTrends, today, trendCall>>

\* Emotion.findOneAndUpdate({userId, text, messageId: null}, {messageId},
\* {sort: {createdAt: -1}}): the index of the sample it updates, 0 if none
findOneUnlinked(userId, text) ==
    LET hits == {i \in 1..Len(samples) :
                   /\ samples[i].userId = userId
                   /\ samples[i].text = text
                   /\ samples[i].messageId = 0}
    IN IF hits = {} THEN 0 ELSE CHOOSE i \in hits : \A j \in hits : j <= i

SendLink(r, stored) ==
    /\ At(r, "send", "link")
    /\ LET i == findOneUnlinked(req[r].userId, req[r].content)
       IN samples' = IF req[r].emotionData # Null /\ stored /\ i # 0
                     THEN [samples EXCEPT ![i].messageId = req[r].message]
                     ELSE samples
    /\ Goto(r, [req[r] EXCEPT !.pc = "history"])
    /\ UNCHANGED <<messages, fcmTokens, profile, lastMessage, supportAttempts,
                   received, push, registered, emotionTrends, today, trendCall>>

\* if (emotionData && emotionData.confidence > 0.5) user.addEmotionToHistory(...)
SendHistory(r, stored) ==
    /\ At(r, "send", "history")
    /\ LET e == req[r].emotionData
           u == req[r].userId
       IN /\ profile' = IF e # Null /\ stored /\ e.confidence > 500
                        THEN [profile EXCEPT ![u].emotionHistory =
                                addEmotionToHistory(@, e.emotion, e.confidence)]
                        ELSE profile
          /\ Goto(r, [req[r] EXCEPT !.pc = "room",
                                    !.appended = (e # Null /\ stored /\ e.confidence > 500),
                                    !.historyFault = (e # Null /\ e.confidence > 500 /\ ~stored)])
    /\ UNCHANGED <<samples, messages, fcmTokens, lastMessage, supportAttempts,
                   received, push, registered, emotionTrends, today, trendCall>>

\* chatRoom.lastMessage = message._id; await chatRoom.save()
SendUpdateRoom(r, stored) ==
    /\ At(r, "send", "room")
    /\ IF stored
       THEN /\ lastMessage' = [lastMessage EXCEPT ![req[r].roomId] = req[r].message]
            /\ Goto(r, [req[r] EXCEPT !.pc = "notify"])
       ELSE /\ Respond(r, [req[r] EXCEPT !.storeFault = TRUE], 500)
            /\ UNCHANGED lastMessage
    /\ UNCHANGED <<samples, messages, fcmTokens, profile, supportAttempts,
                   received, push, registered, emotionTrends, today, trendCall>>

\* the recipients' tokens, and the call of sendNotificationToMultiple when
\* there is one
RECURSIVE Concat(_, _)
Concat(users, i) ==
    IF i = 0 THEN <<>>
    ELSE Concat(users, i - 1) \o getActiveFCMTokens(fcmTokens[users[i]])

\* the recipients taken without the filter on preferences.notifications.push
SendNotify_IgnorePush(r) ==
    /\ At(r, "send", "notify")
    /\ LET otherParticipants ==
               SelectSeq(Participants[req[r].roomId], LAMBDA u : u # req[r].userId)
           allTokens == Concat(otherParticipants, Len(otherParticipants))
       IN IF Len(otherParticipants) > 0 /\ Len(allTokens) > 0
          THEN Goto(r, [req[r] EXCEPT !.pc = "notifySent", !.tokens = allTokens,
                                      !.notifyInvoked = TRUE, !.notifyTokens = allTokens])
          ELSE Respond(r, req[r], 201)
    /\ UNCHANGED <<samples, messages, fcmTokens, profile, lastMessage, supportAttempts,
                   received, push, registered, emotionTrends, today, trendCall>>

SendNotify(r) ==
    /\ At(r, "send", "notify")
    /\ LET otherParticipants ==
               SelectSeq(Participants[req[r].roomId], LAMBDA u : u # req[r].userId)
           participants == SelectSeq(otherParticipants, LAMBDA u : push[u])
           allTokens == Concat(participants, Len(participants))
       IN IF Len(otherParticipants) > 0 /\ Len(allTokens) > 0
          THEN Goto(r, [req[r] EXCEPT !.pc = "notifySent", !.tokens = allTokens,
                                      !.notifyInvoked = TRUE, !.notifyTokens = allTokens])
          ELSE Respond(r, req[r], 201)
    /\ UNCHANGED <<samples, messages, fcmTokens, profile, lastMessage, supportAttempts,
                   received, push, registered, emotionTrends, today, trendCall>>

\* the push provider answers the new-message dispatch; its result is
\* dropped, a rejection is caught; res.status(201)
SendNotifyResult(r) ==
    \E response \in DispatchResponses(Len(req[r].tokens)) :
      /\ At(r, "send", "notifySent")
      /\ Respond(r, [req[r] EXCEPT
                       !.invalidReported = @ \cup ReportedInvalid(req[r].tokens, response)],
                 201)
      /\ UNCHANGED <<samples, messages, fcmTokens, profile, lastMessage, supportAttempts,
                     received, push, registered, emotionTrends, today, trendCall>>

\* ------------------------------------ POST /analyze-with-support (emotion)
AwsSupportTrigger(score) == score <= -600
\* supportNotification.triggered of the response
AwsTriggered(score) == score <= -600

StartAws(r, userId, text, messageId) ==
    /\ Idle(r)
    /\ LET me == [NoReq EXCEPT !.kind = "aws", !.userId = userId, !.content = text,
                               !.messageId = messageId]
       IN IF ~notEmpty(text) THEN Respond(r, me, 400)
          ELSE Goto(r, [me EXCEPT !.pc = "analyze"])
    /\ UNCHANGED <<samples, messages, fcmTokens, profile, lastMessage, supportAttempts,
                   received, push, registered, emotionTrends, today, trendCall>>

\* analysis = await analyzeEmotion(text)
AwsAnalyze(r, provider) ==
    /\ At(r, "aws", "analyze")
    /\ LET res == analyzeEmotion(req[r].content, provider)
           me == [req[r] EXCEPT !.providerOk = provider.ok, !.raised = res.raised]
       IN IF res.raised
          THEN Respond(r, me, 500)
          ELSE Goto(r, [me EXCEPT !.pc = "saveEmotion", !.emotionData = res.value])
    /\ UNCHANGED <<samples, messages, fcmTokens, profile, lastMessage, supportAttempts,
                   received, push, registered, emotionTrends, today, trendCall>>

\* new Emotion({...}); await emotionRecord.save(); the threshold test
AwsSaveEmotion(r, stored) ==
    /\ At(r, "aws", "saveEmotion")
    /\ LET e == req[r].emotionData
           doc == [userId |-> req[r].userId, text |-> req[r].content,
                   sentimentScore |-> e.score, magnitude |-> e.magnitude,
                   emotion |-> e.emotion, confidence |-> e.confidence,
                   processedBy |-> e.processedBy, fcmNotificationSent |-> FALSE,
                   messageId |-> req[r].messageId, roomId |-> "null"]
           written == stored /\ Len(samples) < MaxSamples
       IN IF EmotionValid(doc) /\ written
          THEN /\ samples' = Append(samples, doc)
               /\ supportAttempts' = Append(supportAttempts, 0)
               /\ Goto(r, [req[r] EXCEPT
                             !.savedEmotion = Len(samples) + 1,
                             !.trigger = IF AwsSupportTrigger(e.score) THEN "yes" ELSE "no",
                             !.pc = IF AwsSupportTrigger(e.score) THEN "support"
                                    ELSE "profile"])
          ELSE /\ Respond(r, [req[r] EXCEPT !.storeFault = ~written,
                                              !.sampleFault = ~written], 500)
               /\ UNCHANGED <<samples, supportAttempts>>
    /\ UNCHANGED <<messages, fcmTokens, profile, lastMessage, received, push, registered, emotionTrends, today, trendCall>>

\* user = await User.findById; fcmTokens = user.getActiveFCMTokens(); the
\* call of sendNotificationToMultiple when there is a token
AwsSupport(r) ==
    /\ At(r, "aws", "support")
    /\ LET tokens == getActiveFCMTokens(fcmTokens[req[r].userId])
       IN IF Len(tokens) > 0
          THEN /\ Goto(r, [req[r] EXCEPT !.pc = "supportSent", !.tokens = tokens,
                                         !.supportSent = TRUE, !.supportTokens = tokens])
               /\ supportAttempts' =
                    [supportAttempts EXCEPT ![req[r].savedEmotion] = @ + 1]
          ELSE /\ Goto(r, [req[r] EXCEPT !.pc = "profile"])
               /\ UNCHANGED supportAttempts
    /\ UNCHANGED <<samples, messages, fcmTokens, profile, lastMessage, received, push, registered, emotionTrends, today, trendCall>>

\* a rejected dispatch sent again instead of given up
AwsSupportResult_Retry(r) ==
    \E response \in DispatchResponses(Len(req[r].tokens)) :
      /\ At(r, "aws", "supportSent")
      /\ LET res == sendNotificationToMultiple(req[r].tokens, response)
             me == [req[r] EXCEPT !.invalidReported = ReportedInvalid(req[r].tokens, response)]
         IN IF res.raised
            THEN Goto(r, [me EXCEPT !.pc = "support"])
            ELSE Goto(r, [me EXCEPT !.pc = "markSent", !.notificationSent = TRUE])
      /\ UNCHANGED <<samples, messages, fcmTokens, profile, lastMessage, supportAttempts,
                     received, push, registered, emotionTrends, today, trendCall>>

\* the push provider answers; notificationSent = true
AwsSupportResult(r) ==
    \E response \in DispatchResponses(Len(req[r].tokens)) :
      /\ At(r, "aws", "supportSent")
      /\ LET res == sendNotificationToMultiple(req[r].tokens, response)
             me == [req[r] EXCEPT !.invalidReported = ReportedInvalid(req[r].tokens, response)]
         IN IF res.raised
            THEN Goto(r, [me EXCEPT !.pc = "profile"])
            ELSE Goto(r, [me EXCEPT !.pc = "markSent", !.notificationSent = TRUE])
      /\ UNCHANGED <<samples, messages, fcmTokens, profile, lastMessage, supportAttempts,
                     received, push, registered, emotionTrends, today, trendCall>>

\* the save that writes the flag of this sample and clears it on the others
AwsMarkSent_Exclusive(r, stored) ==
    /\ At(r, "aws", "markSent")
    /\ samples' = IF stored
                  THEN [i \in 1..Len(samples) |->
                          [samples[i] EXCEPT !.fcmNotificationSent = (i = req[r].savedEmotion)]]
                  ELSE samples
    /\ Goto(r, [req[r] EXCEPT !.pc = "profile", !.markFault = ~stored])
    /\ UNCHANGED <<messages, fcmTokens, profile, lastMessage, supportAttempts,
                   received, push, registered, emotionTrends, today, trendCall>>

\* emotionRecord.fcmNotificationSent = true; await emotionRecord.save()
AwsMarkSent(r, stored) ==
    /\ At(r, "aws", "markSent")
    /\ samples' = IF stored
                  THEN [samples EXCEPT ![req[r].savedEmotion].fcmNotificationSent = TRUE]
                  ELSE samples
    /\ Goto(r, [req[r] EXCEPT !.pc = "profile", !.markFault = ~stored])
    /\ UNCHANGED <<messages, fcmTokens, profile, lastMessage, supportAttempts,
                   received, push, registered, emotionTrends, today, trendCall>>

\* the emotional profile: the history when confidence > 0.3, the dominant
\* emotion and the blended sentiment (in 1/1000000) when confidence > 0.7
AwsProfile(r, storedHistory, storedDominant) ==
    /\ At(r, "aws", "profile")
    /\ LET e == req[r].emotionData
           u == req[r].userId
           withHistory == [profile EXCEPT ![u].emotionHistory =
                             addEmotionToHistory(@, e.emotion, e.confidence)]
           withDominant == [withHistory EXCEPT
                              ![u].dominantEmotion = e.emotion,
                              ![u].averageSentiment = (@ + e.score * 1000) \div 2]
       IN IF e.confidence > 300
          THEN IF ~storedHistory
               THEN /\ Respond(r, [req[r] EXCEPT !.storeFault = TRUE], 500)
                    /\ UNCHANGED profile
               ELSE IF e.confidence > 700
                    THEN IF ~storedDominant
                         THEN /\ Respond(r, [req[r] EXCEPT !.storeFault = TRUE,
                                                             !.appended = TRUE], 500)
                              /\ profile' = withHistory
                         ELSE /\ Goto(r, [req[r] EXCEPT !.pc = "message", !.appended = TRUE,
                                                          !.dominantSet = TRUE])
                              /\ profile' = withDominant
                    ELSE /\ Goto(r, [req[r] EXCEPT !.pc = "message", !.appended = TRUE])
                         /\ profile' = withHistory
          ELSE /\ Goto(r, [req[r] EXCEPT !.pc = "message"])
               /\ UNCHANGED profile
    /\ UNCHANGED <<samples, messages, fcmTokens, lastMessage, supportAttempts,
                   received, push, registered, emotionTrends, today, trendCall>>

\* if (messageId) { message = Message.findOne({_id, sender}); message.emotion
\* = analysis; await message.save() }; res.json(...)
AwsMessage(r, stored) ==
    /\ At(r, "aws", "message")
    /\ LET m == req[r].messageId
           found == m # 0 /\ m <= Len(messages) /\ messages[m].sender = req[r].userId
           doc == [messages[m] EXCEPT !.emotion = req[r].emotionData]
           me == [req[r] EXCEPT
                    !.triggered = IF AwsTriggered(req[r].emotionData.score) THEN "yes" ELSE "no"]
       IN IF found
          THEN IF MessageValid(doc) /\ stored
               THEN /\ messages' = [messages EXCEPT ![m] = doc]
                    /\ Respond(r, me, 200)
               ELSE /\ Respond(r, [req[r] EXCEPT !.storeFault = ~stored], 500)
                    /\ UNCHANGED messages
          ELSE /\ Respond(r, me, 200)
               /\ UNCHANGED messages
    /\ UNCHANGED <<samples, fcmTokens, profile, lastMessage, supportAttempts,
                   received, push, registered, emotionTrends, today, trendCall>>

\* ----------------------------------------------------------- ChatRoom model
\* the bucket updateEmotionTrends creates for a day without one
ZeroTrend(day) ==
    [date |-> day, emotions |-> [e \in Range(EmotionNames) |-> 0], averageSentiment |-> 0]

\* emotionTrends.sort((a, b) => b.date - a.date): the latest day first, buckets
\* of the same day in their order
RECURSIVE SortByDateDesc(_)
SortByDateDesc(trends) ==
    IF trends = <<>> THEN <<>>
    ELSE LET latest == CHOOSE i \in 1..Len(trends) :
                         \A j \in 1..Len(trends) :
                           \/ trends[j].date < trends[i].date
                           \/ (trends[j].date = trends[i].date /\ i <= j)
         IN <<trends[latest]>> \o
            SortByDateDesc(SubSeq(trends, 1, latest - 1) \o
                           SubSeq(trends, latest + 1, Len(trends)))

TrendCapacity == 30

\* chatRoomSchema.methods.updateEmotionTrends(emotions, sentiment), on the
\* array `trends` on the day `day`; emotions is an object {name: count},
\* sentiment a score in thousandths, averageSentiment is kept in millionths.
\* find() returns the stored subdocument, and the statements that follow write
\* to it. When there is none, todayTrend is a plain object: push(todayTrend)
\* casts it into a new subdocument of the array, and the statements that
\* follow write to the plain object, which save() does not store.
updateEmotionTrends(trends, day, emotions, sentiment) ==
    LET found == {i \in 1..Len(trends) : trends[i].date = day}
        first == CHOOSE i \in found : \A j \in found : i <= j
        written(todayTrend) ==
            [date |-> todayTrend.date,
             emotions |-> [e \in Range(EmotionNames) |->
                             IF e \in DOMAIN emotions
                             THEN todayTrend.emotions[e] + emotions[e]
                             ELSE todayTrend.emotions[e]],
             averageSentiment |-> (todayTrend.averageSentiment + sentiment * 1000) \div 2]
        after == IF found = {}
                 THEN Append(trends, ZeroTrend(day))
                 ELSE [trends EXCEPT ![first] = written(@)]
    IN IF Len(after) > TrendCapacity
       THEN SubSeq(SortByDateDesc(after), 1, TrendCapacity)
       ELSE after

\* chatRoom.settings.allowEmotionAnalysis (default: true)
allowEmotionAnalysis == [x \in Rooms |-> TRUE]

\* ------------------------------------------------ routes/emotion.js: /analyze
StartAn(r, userId, text, messageId) ==
    /\ Idle(r)
    /\ LET me == [NoReq EXCEPT !.kind = "an", !.userId = userId, !.content = text,
                               !.messageId = messageId]
       IN IF ~notEmpty(text) THEN Respond(r, me, 400)
          ELSE Goto(r, [me EXCEPT !.pc = "analyze"])
    /\ UNCHANGED <<samples, messages, fcmTokens, profile, lastMessage, supportAttempts,
                   received, push, registered, emotionTrends, today, trendCall>>

\* analysis = await analyzeEmotion(text)
AnAnalyze(r, provider) ==
    /\ At(r, "an", "analyze")
    /\ LET res == analyzeEmotion(req[r].content, provider)
           me == [req[r] EXCEPT !.providerOk = provider.ok, !.raised = res.raised]
       IN IF res.raised
          THEN Respond(r, me, 500)
          ELSE Goto(r, [me EXCEPT !.pc = "message", !.emotionData = res.value])
    /\ UNCHANGED <<samples, messages, fcmTokens, profile, lastMessage, supportAttempts,
                   received, push, registered, emotionTrends, today, trendCall>>

\* if (messageId) { message = Message.findOne({_id, sender}); if (message) {
\* message.emotion = analysis; await message.save(); the profile; the room's
\* trends } }; res.json(...). The statements after message.save() are part of
\* this step: save() rejects every analysis (MessageValid), so that no state
\* lies between them.
AnMessage(r, stored, storedHistory, storedDominant, storedTrends) ==
    /\ At(r, "an", "message")
    /\ LET m == req[r].messageId
           e == req[r].emotionData
           u == req[r].userId
           found == m # 0 /\ m <= Len(messages) /\ messages[m].sender = u
           doc == [messages[m] EXCEPT !.emotion = e]
           x == messages[m].chatRoom
           withHistory == [profile EXCEPT ![u].emotionHistory =
                             addEmotionToHistory(@, e.emotion, e.confidence)]
           withDominant == [withHistory EXCEPT
                              ![u].dominantEmotion = e.emotion,
                              ![u].averageSentiment = (@ + e.score * 1000) \div 2]
           fault == [req[r] EXCEPT !.storeFault = TRUE]
       IN IF ~found
          THEN /\ Respond(r, req[r], 200)
               /\ UNCHANGED <<messages, profile, emotionTrends, trendCall>>
          ELSE IF ~(MessageValid(doc) /\ stored)
          THEN /\ Respond(r, [req[r] EXCEPT !.storeFault = ~stored], 500)
               /\ UNCHANGED <<messages, profile, emotionTrends, trendCall>>
          ELSE /\ messages' = [messages EXCEPT ![m] = doc]
               /\ IF e.confidence > 300 /\ ~storedHistory
                  THEN /\ Respond(r, fault, 500)
                       /\ UNCHANGED <<profile, emotionTrends, trendCall>>
                  ELSE IF e.confidence > 700 /\ ~storedDominant
                  THEN /\ Respond(r, [fault EXCEPT !.appended = TRUE], 500)
                       /\ profile' = withHistory
                       /\ UNCHANGED <<emotionTrends, trendCall>>
                  ELSE /\ profile' = IF e.confidence > 700 THEN withDominant
                                     ELSE IF e.confidence > 300 THEN withHistory
                                     ELSE profile
                       /\ IF allowEmotionAnalysis[x] /\ storedTrends
                          THEN /\ emotionTrends' =
                                    [emotionTrends EXCEPT ![x] =
                                       updateEmotionTrends(@, today,
                                         [n \in {e.emotion} |-> 1], e.score)]
                               /\ trendCall' = [n |-> trendCall.n + 1, room |-> x,
                                                emotion |-> e.emotion,
                                                sentiment |-> e.score]
                               /\ Respond(r, [req[r] EXCEPT
                                                !.appended = e.confidence > 300,
                                                !.dominantSet = e.confidence > 700], 200)
                          ELSE /\ UNCHANGED <<emotionTrends, trendCall>>
                               /\ Respond(r, [(IF allowEmotionAnalysis[x]
                                                THEN fault ELSE req[r]) EXCEPT
                                                !.appended = e.confidence > 300,
                                                !.dominantSet = e.confidence > 700],
                                          IF allowEmotionAnalysis[x] THEN 500 ELSE 200)
    /\ UNCHANGED <<samples, fcmTokens, lastMessage, supportAttempts,
                   received, push, registered, today>>

\* ------------------------------------------- a call of analyzeEmotion(text)
Classify(r, provider) ==
    /\ At(r, "classify", "analyze")
    /\ LET res == analyzeEmotion(req[r].content, provider)
       IN Goto(r, [req[r] EXCEPT !.pc = "done", !.provider = provider,
                                 !.providerOk = provider.ok, !.raised = res.raised,
                                 !.emotionData = res.value])
    /\ UNCHANGED <<samples, messages, fcmTokens, profile, lastMessage, supportAttempts,
                   received, push, registered, emotionTrends, today, trendCall>>

\* ------------------------------------------------- routes/notifications.js
\* sendNotification(token, ...): what the caller sees for one token
sendNotification(outcome) ==
    IF outcome = "success" THEN "sent"
    ELSE IF outcome = "invalid" THEN "INVALID_TOKEN"
    ELSE "error"

RECURSIVE DeactivateAll(_, _, _)
DeactivateAll(tokens, invalid, i) ==
    IF i = 0 THEN tokens
    ELSE deactivateFCMToken(DeactivateAll(tokens, invalid, i - 1), invalid[i])

\* POST /send
PostSend(r, userId) ==
    \E response \in DispatchResponses(Len(getActiveFCMTokens(fcmTokens[userId]))) :
      /\ Idle(r)
      /\ LET activeTokens == getActiveFCMTokens(fcmTokens[userId])
             me == [NoReq EXCEPT !.kind = "push", !.userId = userId, !.tokens = activeTokens]
             res == sendNotificationToMultiple(activeTokens, response)
         IN IF ~push[userId] \/ Len(activeTokens) = 0
            THEN /\ Respond(r, me, 400)
                 /\ UNCHANGED fcmTokens
            ELSE IF res.raised
                 THEN /\ Respond(r, me, 500)
                      /\ UNCHANGED fcmTokens
                 ELSE /\ Respond(r, [me EXCEPT !.outcomes = response.outcomes,
                                               !.successCount = res.successCount,
                                               !.failureCount = res.failureCount,
                                               !.invalidTokens = res.invalidTokens], 200)
                      /\ fcmTokens' = [fcmTokens EXCEPT ![userId] =
                            DeactivateAll(Earlier(@), res.invalidTokens,
                                          Len(res.invalidTokens))]
      /\ UNCHANGED <<samples, messages, profile, lastMessage, supportAttempts, received, push, registered, emotionTrends, today, trendCall>>

\* POST /test: one sendNotification per active token, then
\* updateFCMTokenActivity or deactivateFCMToken
RECURSIVE TestLoop(_, _, _, _)
TestLoop(tokens, activeTokens, outcomes, i) ==
    IF i = 0 THEN tokens
    ELSE LET before == TestLoop(tokens, activeTokens, outcomes, i - 1)
             result == sendNotification(outcomes[i])
         IN IF result = "sent" THEN updateFCMTokenActivity(before, activeTokens[i])
            ELSE IF result = "INVALID_TOKEN" THEN deactivateFCMToken(before, activeTokens[i])
            ELSE before

PostTest(userId) ==
    /\ LET activeTokens == getActiveFCMTokens(fcmTokens[userId])
       IN /\ Len(activeTokens) > 0
          /\ \E outcomes \in [1..Len(activeTokens) -> TokenOutcomes] :
               fcmTokens' = [fcmTokens EXCEPT ![userId] =
                               TestLoop(Earlier(@), activeTokens, outcomes,
                                        Len(activeTokens))]
    /\ UNCHANGED <<req, samples, messages, profile, lastMessage, supportAttempts,
                   received, push, registered, emotionTrends, today, trendCall>>

\* validateFCMToken: longer than 100 characters of the token alphabet; "short"
\* is a token that is not
validateFCMToken(token) == token # "short"
RegistryTokens == {"tA", "tF", "tG", "short"}

\* POST /token
PostToken(userId, token, stored) ==
    /\ IF validateFCMToken(token) /\ stored
       THEN /\ fcmTokens' = [fcmTokens EXCEPT ![userId] = addFCMToken(Earlier(@), token)]
            /\ registered' = [registered EXCEPT ![userId].order =
                                Append(SelectSeq(@, LAMBDA t : t # token), token)]
       ELSE UNCHANGED <<fcmTokens, registered>>
    /\ UNCHANGED <<req, samples, messages, profile, lastMessage, supportAttempts,
                   received, push, emotionTrends, today, trendCall>>

\* DELETE /token
DeleteToken(userId, token, stored) ==
    /\ IF stored
       THEN /\ fcmTokens' = [fcmTokens EXCEPT ![userId] = removeFCMToken(Earlier(@), token)]
            /\ registered' = [registered EXCEPT ![userId].removed = TRUE]
       ELSE UNCHANGED <<fcmTokens, registered>>
    /\ UNCHANGED <<req, samples, messages, profile, lastMessage, supportAttempts,
                   received, push, emotionTrends, today, trendCall>>

\* --------------------------------------------------------------- user routes
\* PUT /preferences {notifications: {push}}
PutPreferences(userId, enabled) ==
    /\ push' = [push EXCEPT ![userId] = enabled]
    /\ UNCHANGED <<req, samples, messages, fcmTokens, profile, lastMessage,
                   supportAttempts, received, registered, emotionTrends, today, trendCall>>

\* ------------------------------------------------------------------ server.js
\* socket.on('send-message', data): socket.to(data.roomId).emit('receive-message', data)
SocketSendMessage(messageId) ==
    /\ received' = received \cup {messageId}
    /\ UNCHANGED <<req, samples, messages, fcmTokens, profile, lastMessage,
                   supportAttempts, push, registered, emotionTrends, today, trendCall>>

\* ------------------------------------------------------------ specification
\* one step of the handlers of the message pipeline, for the request slot r
Pipeline(r) ==
    \/ \E u \in Authors, x \in Rooms, t \in MessageTypes, c \in SendContents :
         StartSend(r, u, x, t, c)
    \/ \E p \in ProviderOutcomes : SendAnalyze(r, p)
    \/ \E stored \in BOOLEAN : SendSaveEmotion(r, stored)
    \/ SendSupport(r)
    \/ SendSupportResult(r)
    \/ \E stored \in BOOLEAN : SendMarkSent(r, stored)
    \/ \E stored \in BOOLEAN : SendSaveMessage(r, stored)
    \/ \E ok \in BOOLEAN : SendPopulate(r, ok)
    \/ \E stored \in BOOLEAN : SendLink(r, stored)
    \/ \E stored \in BOOLEAN : SendHistory(r, stored)
    \/ \E stored \in BOOLEAN : SendUpdateRoom(r, stored)
    \/ SendNotify(r)
    \/ SendNotifyResult(r)
    \/ \E u \in Authors, c \in AwsTexts, m \in AwsMessageIds : StartAws(r, u, c, m)
    \/ \E p \in ProviderOutcomes : AwsAnalyze(r, p)
    \/ \E stored \in BOOLEAN : AwsSaveEmotion(r, stored)
    \/ AwsSupport(r)
    \/ AwsSupportResult(r)
    \/ \E stored \in BOOLEAN : AwsMarkSent(r, stored)
    \/ \E s1, s2 \in BOOLEAN : AwsProfile(r, s1, s2)
    \/ \E stored \in BOOLEAN : AwsMessage(r, stored)
    \/ \E u \in Authors, c \in AnalyzeTexts, m \in AnalyzeMessageIds : StartAn(r, u, c, m)
    \/ \E p \in ProviderOutcomes : AnAnalyze(r, p)
    \/ \E s1, s2, s3, s4 \in BOOLEAN : AnMessage(r, s1, s2, s3, s4)

Next == \E r \in Reqs : Pipeline(r)

Spec == Init /\ [][Next]_vars

\* the routes of the device registry and the preferences
NextDevices ==
    \/ \E r \in Reqs, u \in Users : PostSend(r, u)
    \/ \E u \in Users : PostTest(u)
    \/ \E u \in Users, b \in BOOLEAN : PutPreferences(u, b)

SpecDevices == Init /\ [][NextDevices]_vars

\* the device registry of one user
NextRegistry ==
    \/ \E u \in Authors, t \in RegistryTokens, stored \in BOOLEAN : PostToken(u, t, stored)
    \/ \E u \in Authors, t \in RegistryTokens, stored \in BOOLEAN : DeleteToken(u, t, stored)
    \/ \E u \in Authors : PostTest(u)

\* u1 has registered four devices
InitRegistry ==
    /\ req = [r \in Reqs |-> NoReq]
    /\ samples = <<>>
    /\ messages = <<>>
    /\ fcmTokens = [u \in Users |->
                      IF u = "u1"
                      THEN <<Device("tA", TRUE), Device("tB", TRUE),
                             Device("tD", TRUE), Device("tE", TRUE)>>
                      ELSE <<Device("tC", TRUE)>>]
    /\ profile = [u \in Users |-> [dominantEmotion |-> "neutral", averageSentiment |-> 0,
                                   emotionHistory |-> <<>>]]
    /\ lastMessage = [x \in Rooms |-> 0]
    /\ supportAttempts = <<>>
    /\ received = {}
    /\ push = [u \in Users |-> TRUE]
    /\ registered = [u \in Users |->
                       [order |-> IF u = "u1" THEN <<"tA", "tB", "tD", "tE">> ELSE <<"tC">>,
                        removed |-> FALSE]]
    /\ InitTrends

SpecRegistry == InitRegistry /\ [][NextRegistry]_vars

\* the pipeline for an author with a deactivated device: one device is left
\* active, or none
InitInactive ==
    /\ req = [r \in Reqs |-> NoReq]
    /\ samples = <<>>
    /\ messages = <<>>
    /\ fcmTokens \in
         {[u \in Users |-> IF u = "u1" THEN <<Device("tA", FALSE), Device("tB", b)>>
                           ELSE <<Device("tC", TRUE)>>] : b \in BOOLEAN}
    /\ profile = [u \in Users |-> [dominantEmotion |-> "neutral", averageSentiment |-> 0,
                                   emotionHistory |-> <<>>]]
    /\ lastMessage = [x \in Rooms |-> 0]
    /\ supportAttempts = <<>>
    /\ received = {}
    /\ push = [u \in Users |-> TRUE]
    /\ registered = [u \in Users |->
                       [order |-> IF u = "u1" THEN <<"tA", "tB">> ELSE <<"tC">>,
                        removed |-> FALSE]]
    /\ InitTrends

SpecInactive == InitInactive /\ [][Next]_vars

\* the pipeline next to the socket server
NextSocket ==
    \/ Next
    \/ \E m \in SocketMessageIds : SocketSendMessage(m)

SpecSocket == Init /\ [][NextSocket]_vars

\* The event loop runs every step of a handler whose awaited call has
\* settled; the store and the sentiment provider always settle, the push
\* provider need not answer a dispatch.
Fairness ==
    \A r \in Reqs :
      /\ WF_vars(\E p \in ProviderOutcomes : SendAnalyze(r, p))
      /\ WF_vars(\E stored \in BOOLEAN : SendSaveEmotion(r, stored))
      /\ WF_vars(SendSupport(r))
      /\ WF_vars(\E stored \in BOOLEAN : SendMarkSent(r, stored))
      /\ WF_vars(\E stored \in BOOLEAN : SendSaveMessage(r, stored))
      /\ WF_vars(\E ok \in BOOLEAN : SendPopulate(r, ok))
      /\ WF_vars(\E stored \in BOOLEAN : SendLink(r, stored))
      /\ WF_vars(\E stored \in BOOLEAN : SendHistory(r, stored))
      /\ WF_vars(\E stored \in BOOLEAN : SendUpdateRoom(r, stored))
      /\ WF_vars(SendNotify(r))
      /\ WF_vars(\E p \in ProviderOutcomes : AwsAnalyze(r, p))
      /\ WF_vars(\E stored \in BOOLEAN : AwsSaveEmotion(r, stored))
      /\ WF_vars(AwsSupport(r))
      /\ WF_vars(\E stored \in BOOLEAN : AwsMarkSent(r, stored))
      /\ WF_vars(\E s1, s2 \in BOOLEAN : AwsProfile(r, s1, s2))
      /\ WF_vars(\E stored \in BOOLEAN : AwsMessage(r, stored))
      /\ WF_vars(\E p \in ProviderOutcomes : AnAnalyze(r, p))
      /\ WF_vars(\E s1, s2, s3, s4 \in BOOLEAN : AnMessage(r, s1, s2, s3, s4))

FairSpec == Init /\ [][Next]_vars /\ Fairness

\* /analyze-with-support for a caller whose emotionHistory is one entry short
\* of its capacity
AwsPipeline(r) ==
    \/ \E u \in Authors, c \in AwsTexts, m \in AwsMessageIds : StartAws(r, u, c, m)
    \/ \E p \in ProviderOutcomes : AwsAnalyze(r, p)
    \/ \E stored \in BOOLEAN : AwsSaveEmotion(r, stored)
    \/ AwsSupport(r)
    \/ AwsSupportResult(r)
    \/ \E stored \in BOOLEAN : AwsMarkSent(r, stored)
    \/ \E s1, s2 \in BOOLEAN : AwsProfile(r, s1, s2)
    \/ \E stored \in BOOLEAN : AwsMessage(r, stored)

NextHistory == \E r \in Reqs : AwsPipeline(r)

InitHistory ==
    /\ req = [r \in Reqs |-> NoReq]
    /\ samples = <<>>
    /\ messages = <<>>
    /\ fcmTokens = [u \in Users |->
                      IF u = "u1" THEN <<Device("tA", TRUE), Device("tB", TRUE)>>
                      ELSE <<Device("tC", TRUE)>>]
    /\ profile = [u \in Users |->
                    [dominantEmotion |-> "neutral", averageSentiment |-> 0,
                     emotionHistory |->
                       IF u = "u1"
                       THEN [i \in 1..(HistoryCapacity - 1) |->
                               [emotion |-> "neutral", confidence |-> 300 + i]]
                       ELSE <<>>]]
    /\ lastMessage = [x \in Rooms |-> 0]
    /\ supportAttempts = <<>>
    /\ received = {}
    /\ push = [u \in Users |-> TRUE]
    /\ registered = [u \in Users |->
                       [order |-> IF u = "u1" THEN <<"tA", "tB">> ELSE <<"tC">>,
                        removed |-> FALSE]]
    /\ InitTrends

SpecHistory == InitHistory /\ [][NextHistory]_vars

\* updateEmotionTrends alone, called on the rooms over the days
TrendEmotions == {"joy", "sadness"}
TrendSentiments == {-600, 400}

\* await chatRoom.updateEmotionTrends({[emotion]: 1}, sentiment)
UpdateTrends(x, emotion, sentiment, stored) ==
    /\ trendCall.n < MaxTrendCalls
    /\ IF stored
       THEN /\ emotionTrends' = [emotionTrends EXCEPT ![x] =
                                   updateEmotionTrends(@, today,
                                     [n \in {emotion} |-> 1], sentiment)]
            /\ trendCall' = [n |-> trendCall.n + 1, room |-> x, emotion |-> emotion,
                             sentiment |-> sentiment]
       ELSE UNCHANGED <<emotionTrends, trendCall>>
    /\ UNCHANGED <<req, samples, messages, fcmTokens, profile, lastMessage,
                   supportAttempts, received, push, registered, today>>

\* midnight passes
NextDay ==
    /\ today < MaxDays
    /\ today' = today + 1
    /\ UNCHANGED <<req, samples, messages, fcmTokens, profile, lastMessage,
                   supportAttempts, received, push, registered, emotionTrends,
                   trendCall>>

NextTrends ==
    \/ \E x \in Rooms, e \in TrendEmotions, s \in TrendSentiments, stored \in BOOLEAN :
         UpdateTrends(x, e, s, stored)
    \/ NextDay

SpecTrends == Init /\ [][NextTrends]_vars

\* send-message towards a recipient with deactivated devices, with the
\* sender's device among them, or with push notifications switched off
SendPipeline(r) ==
    \/ \E u \in Authors, x \in Rooms, t \in MessageTypes, c \in SendContents :
         StartSend(r, u, x, t, c)
    \/ \E p \in ProviderOutcomes : SendAnalyze(r, p)
    \/ \E stored \in BOOLEAN : SendSaveEmotion(r, stored)
    \/ SendSupport(r)
    \/ SendSupportResult(r)
    \/ \E stored \in BOOLEAN : SendMarkSent(r, stored)
    \/ \E stored \in BOOLEAN : SendSaveMessage(r, stored)
    \/ \E ok \in BOOLEAN : SendPopulate(r, ok)
    \/ \E stored \in BOOLEAN : SendLink(r, stored)
    \/ \E stored \in BOOLEAN : SendHistory(r, stored)
    \/ \E stored \in BOOLEAN : SendUpdateRoom(r, stored)
    \/ SendNotify(r)
    \/ SendNotifyResult(r)

NextRecipients == \E r \in Reqs : SendPipeline(r)

RecipientDevices ==
    {<<Device("tA", FALSE), Device("tD", TRUE)>>,
     <<Device("tC", FALSE)>>,
     <<Device("tC", TRUE), Device("tD", TRUE)>>}

InitRecipients ==
    /\ req = [r \in Reqs |-> NoReq]
    /\ samples = <<>>
    /\ messages = <<>>
    /\ fcmTokens \in
         {[u \in Users |-> IF u = "u1" THEN <<Device("tA", TRUE), Device("tB", TRUE)>>
                           ELSE devices] : devices \in RecipientDevices}
    /\ profile = [u \in Users |-> [dominantEmotion |-> "neutral", averageSentiment |-> 0,
                                   emotionHistory |-> <<>>]]
    /\ lastMessage = [x \in Rooms |-> 0]
    /\ supportAttempts = <<>>
    /\ received = {}
    /\ push \in {[u \in Users |-> u = "u1" \/ enabled] : enabled \in BOOLEAN}
    /\ registered = [u \in Users |->
                       [order |-> [i \in 1..Len(fcmTokens[u]) |-> fcmTokens[u][i].token],
                        removed |-> FALSE]]
    /\ InitTrends

SpecRecipients == InitRecipients /\ [][NextRecipients]_vars

\* analyzeEmotion alone, over the texts and the provider answers
InitClassify ==
    /\ req \in [Reqs -> {[NoReq EXCEPT !.kind = "classify", !.pc = "analyze", !.content = t] :
                          t \in ClassifyTexts}]
    /\ samples = <<>>
    /\ messages = <<>>
    /\ fcmTokens = [u \in Users |-> <<>>]
    /\ profile = [u \in Users |-> [dominantEmotion |-> "neutral", averageSentiment |-> 0,
                                   emotionHistory |-> <<>>]]
    /\ lastMessage = [x \in Rooms |-> 0]
    /\ supportAttempts = <<>>
    /\ received = {}
    /\ push = [u \in Users |-> TRUE]
    /\ registered = [u \in Users |-> [order |-> <<>>, removed |-> FALSE]]
    /\ InitTrends

NextClassify == \E r \in Reqs, p \in ClassifyOutcomes : Classify(r, p)

SpecClassify == InitClassify /\ [][NextClassify]_vars

\* ================================================================ properties
IsSend(r) == req[r].kind = "send"
IsAws(r) == req[r].kind = "aws"
Finished(r) == req[r].pc = "done"
\* a text message with non-empty content, sent by a participant of the room
TextOfParticipant(r) ==
    /\ IsSend(r)
    /\ req[r].messageType = "text"
    /\ IsString(req[r].content) /\ TrimLength(req[r].content) > 0
    /\ req[r].userId \in Range(Participants[req[r].roomId])
Classified(r) == req[r].emotionData # Null

\* C1: a text message with non-empty content sent by a participant is stored
\* and answered with success whatever classification, sample recording, the
\* support decision and the support dispatch produced (the store accepting
\* the writes of the message and of the room).
C1_SendSucceedsWhateverClassification ==
    \A r \in Reqs :
      (TextOfParticipant(r) /\ Finished(r) /\ ~req[r].storeFault)
        => (req[r].status = 201 /\ req[r].message # 0)

\* C2: once the message is stored the sender gets the success response,
\* whichever later stage fails.
C2_StoredThenSuccess ==
    \A r \in Reqs :
      (IsSend(r) /\ Finished(r) /\ req[r].message # 0) => req[r].status = 201

\* C3: the support decision is exactly sentimentScore <= -0.6, boundary
\* included, in send-message and in analyze-with-support (the branch taken
\* and the 'triggered' field of the response), whatever the label, the
\* magnitude and the confidence.
C3_TriggerIsThreshold ==
    \A r \in Reqs :
      /\ req[r].trigger # "undecided" =>
           /\ req[r].savedEmotion # 0
           /\ (req[r].trigger = "yes") <=> (samples[req[r].savedEmotion].sentimentScore <= -600)
           /\ req[r].supportSent => req[r].trigger = "yes"
           /\ (req[r].trigger = "yes" /\ req[r].supportSent = FALSE
                 /\ req[r].pc # "support")
                => getActiveFCMTokens(fcmTokens[req[r].userId]) = <<>>
      /\ req[r].triggered # "undecided" =>
           (req[r].triggered = "yes") <=> (req[r].emotionData.score <= -600)

C3_Witness ==
    \E r \in Reqs :
      /\ IsAws(r) /\ req[r].status = 200
      /\ req[r].emotionData.score = -600
      /\ req[r].trigger = "yes" /\ req[r].triggered = "yes" /\ req[r].supportSent

\* C4: over any sequence of send-message and analyze-with-support requests
\* the dispatcher is invoked with the support payload of a sample at most
\* once.
C4_SupportAtMostOncePerSample ==
    /\ Len(supportAttempts) = Len(samples)
    /\ \A i \in 1..Len(supportAttempts) : supportAttempts[i] <= 1

C4_Witness ==
    /\ Len(samples) = 2
    /\ supportAttempts[1] = 1 /\ supportAttempts[2] = 1
    /\ \A r \in Reqs : Finished(r)

\* C5: a multi-token send over [A,B] where A is accepted and B is reported
\* unregistered returns successCount 1, failureCount 1 and B as invalid; a
\* token that failed for a transient reason is not in the invalid-token set.
C5_InvalidDistinctFromTransient ==
    \A r \in Reqs :
      (req[r].kind = "push" /\ req[r].status = 200) =>
        /\ (req[r].tokens = <<"tA", "tB">> /\ req[r].outcomes = <<"success", "invalid">>)
             => /\ req[r].successCount = 1
                /\ req[r].failureCount = 1
                /\ req[r].invalidTokens = <<"tB">>
        /\ \A i \in 1..Len(req[r].tokens) :
             req[r].outcomes[i] = "transient"
               => req[r].tokens[i] \notin Range(req[r].invalidTokens)

\* C6: a token for which a dispatch of the send-message pipeline got the
\* outcome 'invalid token' is deactivated for its owner.
C6_InvalidTokenDeactivated ==
    \A r \in Reqs :
      (IsSend(r) /\ Finished(r)) =>
        \A t \in req[r].invalidReported : \A u \in Users :
          \A i \in 1..Len(fcmTokens[u]) :
            fcmTokens[u][i].token = t => ~fcmTokens[u][i].isActive

\* C7: a message delivered by 'receive-message' is in the store.
C7_BroadcastOnlyStored ==
    \A m \in received : m <= Len(messages)

\* C8: once the message is stored and linked, the response is eventually
\* produced, also when a push dispatch never completes.
C8_ResponseDoesNotWait ==
    \A r \in Reqs :
      (IsSend(r) /\ req[r].message # 0 /\ req[r].pc \in {"history", "room", "notify", "notifySent"})
        ~> Finished(r)

\* C9: the support notification of a message is dispatched only after the
\* message is stored and its sample linked to it; none is sent for a message
\* that ends up not stored.
C9_SupportAfterStoredAndLinked ==
    \A r \in Reqs :
      (IsSend(r) /\ req[r].supportSent) =>
        /\ req[r].message # 0
        /\ samples[req[r].savedEmotion].messageId = req[r].message

\* C10: for a non-empty text, when the primary provider fails, classify does
\* not raise and returns the fallback result, tagged local-fallback, with
\* label, score, magnitude and confidence populated.
C10_FallbackNeverRaises ==
    \A r \in Reqs :
      (/\ req[r].kind \in {"send", "aws"}
       /\ req[r].pc # "analyze"
       /\ IsString(req[r].content) /\ TrimLength(req[r].content) > 0
       /\ ~req[r].providerOk)
        => /\ ~req[r].raised
           /\ Classified(r)
           /\ req[r].emotionData = fallbackEmotionAnalysis(req[r].content).value
           /\ req[r].emotionData.processedBy = "local-fallback"
           /\ req[r].emotionData.emotion \in Range(EmotionNames)
           /\ req[r].emotionData.score \in Int
           /\ req[r].emotionData.magnitude \in Int
           /\ req[r].emotionData.confidence \in Int

C10_Witness ==
    \E r \in Reqs :
      /\ IsSend(r) /\ ~req[r].providerOk /\ req[r].pc = "saveEmotion"
      /\ req[r].emotionData.processedBy = "local-fallback"
      /\ req[r].emotionData.emotion = "sadness"
      /\ req[r].emotionData.score = -700

\* ---------------------------------------------------------------- classify
\* a finished call of analyzeEmotion that returned a result
Returned(r) == req[r].kind = "classify" /\ Finished(r) /\ ~req[r].raised
\* the text is a string with a character that is not a blank
ValidText(t) == IsString(t) /\ TrimLength(t) > 0

\* C11: every result of classify, primary or fallback, has the score within
\* [-1, 1], the magnitude >= 0, the confidence within [0, 1] and a label
\* among the seven; in the fallback for any number of matched keywords.
C11_ResultWithinRanges ==
    \A r \in Reqs :
      Returned(r) =>
        /\ req[r].emotionData.score >= -1000 /\ req[r].emotionData.score <= 1000
        /\ req[r].emotionData.magnitude >= 0
        /\ req[r].emotionData.confidence >= 0 /\ req[r].emotionData.confidence <= 1000
        /\ req[r].emotionData.emotion \in Range(EmotionNames)

\* C12: classify raises exactly when the text is empty, made of blanks or
\* not a string, and then returns no result.
C12_FailsExactlyOnInvalidInput ==
    \A r \in Reqs :
      (req[r].kind = "classify" /\ Finished(r)) =>
        /\ req[r].raised <=> ~ValidText(req[r].content)
        /\ req[r].raised => req[r].emotionData = Null

\* C13: the label of a primary result is the band of the provider's score
\* and magnitude: magnitude < 0.3 neutral; else score > 0.6 joy when
\* magnitude > 0.8 and surprise when not; 0.2 < score <= 0.6 joy;
\* -0.2 < score <= 0.2 neutral; -0.6 < score <= -0.2 sadness when
\* magnitude > 0.7 and fear when not; score <= -0.6 anger when
\* magnitude > 0.8 and sadness when not.
C13_LabelBands ==
    \A r \in Reqs :
      (Returned(r) /\ ValidText(req[r].content) /\ req[r].providerOk) =>
        LET s == req[r].provider.score
            m == req[r].provider.magnitude
            e == req[r].emotionData.emotion
        IN /\ m < 3000 => e = "neutral"
           /\ (m >= 3000 /\ s > 6000) => e = (IF m > 8000 THEN "joy" ELSE "surprise")
           /\ (m >= 3000 /\ 2000 < s /\ s <= 6000) => e = "joy"
           /\ (m >= 3000 /\ -2000 < s /\ s <= 2000) => e = "neutral"
           /\ (m >= 3000 /\ -6000 < s /\ s <= -2000)
                => e = (IF m > 7000 THEN "sadness" ELSE "fear")
           /\ (m >= 3000 /\ s <= -6000) => e = (IF m > 8000 THEN "anger" ELSE "sadness")
           /\ e \in Range(EmotionNames)

C13_Witness ==
    \E r \in Reqs :
      /\ Returned(r) /\ req[r].providerOk
      /\ req[r].provider.score = -6000 /\ req[r].provider.magnitude = 8001
      /\ req[r].emotionData.emotion = "anger"

\* ---------------------------------------------------------- device registry
TokenValues(tokens) == [i \in 1..Len(tokens) |-> tokens[i].token]
LastN(seq, n) == IF Len(seq) > n THEN SubSeq(seq, Len(seq) - n + 1, Len(seq)) ELSE seq
Holds(tokens, token) == \E i \in 1..Len(tokens) : tokens[i].token = token
NoDuplicate(tokens) ==
    \A i, j \in 1..Len(tokens) : tokens[i].token = tokens[j].token => i = j

\* C14: an owner holds at most 5 tokens after any sequence of addToken,
\* removeToken, markInvalid and touch; as long as nothing was removed the
\* tokens held are the (up to) 5 most recently added ones, so after more than
\* 5 distinct adds exactly 5 remain and the oldest are gone.
C14_CapacityKeepsNewest ==
    \A u \in Users :
      /\ Len(fcmTokens[u]) <= 5
      /\ ~registered[u].removed =>
           TokenValues(fcmTokens[u]) = LastN(registered[u].order, 5)

C14_Witness ==
    /\ ~registered["u1"].removed
    /\ Len(registered["u1"].order) = 6
    /\ Len(fcmTokens["u1"]) = 5
    /\ ~Holds(fcmTokens["u1"], registered["u1"].order[1])
    /\ \E i \in 1..5 : ~fcmTokens["u1"][i].isActive

\* C15: no owner ever holds two entries with the same token value, and
\* addToken of a token the owner holds, active or not, leaves the number of
\* entries unchanged and that token active with a refreshed lastUsed.
C15_AddIsIdempotentUpsert ==
    [][\A u \in Users :
         /\ NoDuplicate(fcmTokens'[u])
         /\ \A t \in RegistryTokens :
              (PostToken(u, t, TRUE) /\ validateFCMToken(t) /\ Holds(fcmTokens[u], t)) =>
                /\ Len(fcmTokens'[u]) = Len(fcmTokens[u])
                /\ \E i \in 1..Len(fcmTokens'[u]) :
                     /\ fcmTokens'[u][i].token = t
                     /\ fcmTokens'[u][i].isActive
                     /\ fcmTokens'[u][i].lastUsed = "now"]_vars

C15_Witness ==
    /\ registered["u1"].order = <<"tB", "tD", "tE", "tA">>
    /\ TokenValues(fcmTokens["u1"]) = <<"tB", "tD", "tE", "tA">>
    /\ fcmTokens["u1"][4].isActive /\ fcmTokens["u1"][4].lastUsed = "now"
    /\ ~fcmTokens["u1"][1].isActive

\* C16: markInvalid(token) sets isActive=false on that token and deletes
\* nothing: the count and every other entry are unchanged, the token is
\* still held, activeTokens afterwards is exactly the entries with
\* isActive=true and so without the token; for a token the owner does not
\* hold nothing changes.
C16_MarkInvalidKeepsEntries ==
    \A u \in Users : \A t \in RegistryTokens \cup Range(TokenValues(fcmTokens[u])) :
      LET before == fcmTokens[u]
          after == deactivateFCMToken(before, t)
      IN /\ Len(after) = Len(before)
         /\ \A i \in 1..Len(before) :
              IF before[i].token = t
              THEN after[i] = [before[i] EXCEPT !.isActive = FALSE]
              ELSE after[i] = before[i]
         /\ Range(getActiveFCMTokens(after)) =
              {after[i].token : i \in {j \in 1..Len(after) : after[j].isActive}}
         /\ t \notin Range(getActiveFCMTokens(after))
         /\ ~Holds(before, t) => after = before

C16_Witness ==
    /\ ~registered["u1"].removed
    /\ TokenValues(fcmTokens["u1"]) = <<"tA", "tB", "tD", "tE">>
    /\ ~fcmTokens["u1"][2].isActive
    /\ getActiveFCMTokens(fcmTokens["u1"]) = <<"tA", "tD", "tE">>

\* a test notification of u delivered to the token, followed by
\* updateFCMTokenActivity
TouchDelivered(u, token) ==
    /\ PostTest(u)
    /\ \E i \in 1..Len(fcmTokens'[u]) :
         /\ fcmTokens'[u][i].token = token
         /\ fcmTokens'[u][i].isActive
         /\ fcmTokens'[u][i].lastUsed = "now"

\* C17: touch(token) sets isActive=true and refreshes lastUsed, and a token
\* that was deactivated can get the successful delivery that touches it.
C17_DeactivatedTokenReactivatedByUse ==
    \A u \in Authors : \A i \in 1..Len(fcmTokens[u]) :
      LET t == fcmTokens[u][i].token
          after == updateFCMTokenActivity(fcmTokens[u], t)
      IN /\ after[i].isActive /\ after[i].lastUsed = "now"
         /\ ~fcmTokens[u][i].isActive => ENABLED TouchDelivered(u, t)

\* ------------------------------------------------------ support notification
\* the active tokens of a user, read off the registry
ActiveOf(u) ==
    LET idx == {i \in 1..Len(fcmTokens[u]) : fcmTokens[u][i].isActive}
        RECURSIVE Upto(_)
        Upto(i) == IF i = 0 THEN <<>>
                   ELSE IF i \in idx THEN Append(Upto(i - 1), fcmTokens[u][i].token)
                   ELSE Upto(i - 1)
    IN Upto(Len(fcmTokens[u]))
\* the support stage of a request that decided to trigger is over
SupportStageOver(r) ==
    /\ req[r].kind \in {"send", "aws"}
    /\ req[r].trigger = "yes"
    /\ req[r].pc \notin {"support", "supportSent", "markSent"}

\* C18: fcmNotificationSent of a sample starts false, only changes from
\* false to true, is written once at most and is never reset.
C18_SupportTriggeredMonotonic ==
    [][/\ Len(samples') >= Len(samples)
       /\ \A i \in 1..Len(samples) :
            samples[i].fcmNotificationSent => samples'[i].fcmNotificationSent
       /\ \A i \in (Len(samples) + 1)..Len(samples') : ~samples'[i].fcmNotificationSent
       /\ \A r \in Reqs :
            (SendMarkSent(r, TRUE) \/ AwsMarkSent(r, TRUE))
              => ~samples[req[r].savedEmotion].fcmNotificationSent]_vars

C18_Witness ==
    /\ Len(samples) = 2
    /\ samples[1].fcmNotificationSent /\ samples[2].fcmNotificationSent
    /\ \A r \in Reqs : Finished(r)

\* C19 as stated: with a score <= -0.6 and an author who has an active
\* token, the support notification goes to exactly the author's active
\* tokens and, once the dispatch was attempted, the stored sample has
\* fcmNotificationSent = true (the store accepting the write).
C19_FlagSetAfterAttempt ==
    \A r \in Reqs :
      (SupportStageOver(r) /\ ActiveOf(req[r].userId) # <<>> /\ ~req[r].markFault) =>
        /\ req[r].supportSent
        /\ req[r].supportTokens = ActiveOf(req[r].userId)
        /\ samples[req[r].savedEmotion].fcmNotificationSent

\* C19 amended: the support notification goes to exactly the author's
\* active tokens; the stored sample has fcmNotificationSent = true exactly
\* when the dispatcher call returned (whatever the per-token outcomes), and
\* false when the dispatcher raised.
C19_FlagSetWhenDispatchReturned ==
    \A r \in Reqs :
      (SupportStageOver(r) /\ ActiveOf(req[r].userId) # <<>> /\ ~req[r].markFault) =>
        /\ req[r].supportSent
        /\ req[r].supportTokens = ActiveOf(req[r].userId)
        /\ supportAttempts[req[r].savedEmotion] = 1
        /\ samples[req[r].savedEmotion].fcmNotificationSent <=> req[r].notificationSent

C19_Witness ==
    \E r \in Reqs :
      /\ IsSend(r) /\ SupportStageOver(r) /\ ~req[r].markFault
      /\ fcmTokens[req[r].userId][1].isActive = FALSE
      /\ req[r].supportTokens = <<"tB">>
      /\ req[r].notificationSent
      /\ samples[req[r].savedEmotion].fcmNotificationSent

\* C20: with a score <= -0.6 and an author without an active token the
\* decision is to trigger, the dispatcher is not invoked, and the sample is
\* stored with fcmNotificationSent = false.
C20_NoTokenNoDispatch ==
    \A r \in Reqs :
      (/\ req[r].kind \in {"send", "aws"}
       /\ req[r].savedEmotion # 0
       /\ samples[req[r].savedEmotion].sentimentScore <= -600
       /\ ActiveOf(req[r].userId) = <<>>) =>
        /\ req[r].trigger = "yes"
        /\ ~req[r].supportSent
        /\ supportAttempts[req[r].savedEmotion] = 0
        /\ ~samples[req[r].savedEmotion].fcmNotificationSent
        /\ req[r].pc \notin {"supportSent", "markSent"}

C20_Witness ==
    \E r \in Reqs :
      /\ IsSend(r) /\ Finished(r)
      /\ req[r].trigger = "yes"
      /\ ActiveOf(req[r].userId) = <<>>
      /\ supportAttempts[req[r].savedEmotion] = 0
      /\ ~samples[req[r].savedEmotion].fcmNotificationSent

\* ------------------------------------------------------- end-to-end scenarios
\* the other participants of the request's room who enabled push and hold an
\* active token
Reachable(r) ==
    {u \in Range(Participants[req[r].roomId]) \ {req[r].userId} :
       push[u] /\ ActiveOf(u) # <<>>}

\* C21: a text message classified with a score > -0.6 gets a sample stored
\* with fcmNotificationSent = false and no support dispatch, and the
\* new-message dispatch to the other participants still occurs (the store
\* accepting the writes), and only once the message is saved.
C21_NeutralMessageStillNotifies ==
    \A r \in Reqs :
      /\ (IsSend(r) /\ req[r].notifyInvoked) => req[r].message # 0
      /\ (/\ TextOfParticipant(r) /\ Finished(r) /\ Classified(r)
          /\ req[r].emotionData.score > -600
          /\ ~req[r].storeFault /\ ~req[r].sampleFault
          /\ Reachable(r) # {}) =>
           /\ req[r].savedEmotion # 0
           /\ ~samples[req[r].savedEmotion].fcmNotificationSent
           /\ supportAttempts[req[r].savedEmotion] = 0
           /\ req[r].message # 0
           /\ req[r].notifyInvoked

IsAn(r) == req[r].kind = "an"
\* the store refused none of the request's writes
NoFault(r) ==
    ~req[r].storeFault /\ ~req[r].sampleFault /\ ~req[r].historyFault /\ ~req[r].markFault
\* the request is on a path that aggregates its classification: a text message
\* of a participant, an analyze-with-support call, an analyze call for a
\* message of the caller
Aggregating(r) ==
    /\ Classified(r)
    /\ \/ TextOfParticipant(r)
       \/ IsAws(r)
       \/ /\ IsAn(r) /\ req[r].messageId # 0 /\ req[r].messageId <= Len(messages)
          /\ messages[req[r].messageId].sender = req[r].userId

\* C22: on send-message, analyze and analyze-with-support the classification is
\* appended to the caller's emotionHistory exactly when its confidence is
\* > 0.3, and dominantEmotion is overwritten exactly when it is > 0.7 (the
\* store accepting the writes).
C22_AggregationThresholds ==
    \A r \in Reqs :
      (Aggregating(r) /\ Finished(r) /\ NoFault(r)) =>
        /\ req[r].appended <=> req[r].emotionData.confidence > 300
        /\ req[r].dominantSet <=> req[r].emotionData.confidence > 700

\* C23: emotionHistory is a bounded first-in-first-out sequence of capacity
\* 100: it never holds more than 100 entries, every change of it appends one
\* entry at the end and keeps the others in their order, and an append to a
\* full history removes exactly the oldest entry.
C23_HistoryBoundedFifo ==
    [][\A u \in Users :
         LET h == profile[u].emotionHistory
             h2 == profile'[u].emotionHistory
         IN /\ Len(h2) <= HistoryCapacity
            /\ h2 # h =>
                 /\ Len(h2) >= 1
                 /\ h2 = IF Len(h) = HistoryCapacity
                         THEN Tail(h) \o <<h2[Len(h2)]>>
                         ELSE h \o <<h2[Len(h2)]>>]_vars

\* an append to the full history evicted the entry that was the oldest
C23_Witness ==
    /\ Len(profile["u1"].emotionHistory) = HistoryCapacity
    /\ profile["u1"].emotionHistory[1].confidence = 302
    /\ profile["u1"].emotionHistory[HistoryCapacity].confidence > 500

\* the buckets of the day in a room's trends
BucketsOf(trends, day) == {i \in 1..Len(trends) : trends[i].date = day}

\* C24: an update of a room's trends selects the bucket of today, or creates
\* it, adds one to the counter of the sample's emotion and leaves the six
\* others as they were, and sets averageSentiment to (old + sample) / 2; a
\* room has one bucket per calendar day at most.
C24_TrendUpdate ==
    [][trendCall'.n # trendCall.n =>
         LET x == trendCall'.room
             before == BucketsOf(emotionTrends[x], today)
             after == BucketsOf(emotionTrends'[x], today)
             old == IF before = {} THEN ZeroTrend(today)
                    ELSE emotionTrends[x][CHOOSE i \in before : TRUE]
         IN /\ \A y \in Rooms, d \in 1..MaxDays :
                 Cardinality(BucketsOf(emotionTrends'[y], d)) <= 1
            /\ Cardinality(after) = 1
            /\ \A i \in after :
                 LET new == emotionTrends'[x][i]
                 IN /\ \A e \in Range(EmotionNames) :
                         new.emotions[e] =
                           old.emotions[e] + (IF e = trendCall'.emotion THEN 1 ELSE 0)
                    /\ new.averageSentiment =
                         (old.averageSentiment + trendCall'.sentiment * 1000) \div 2]_vars

\* the samples that reference the message m
SamplesOf(all, m) == {i \in 1..Len(all) : all[i].messageId = m}

\* C25: a sample is created once per analyzed message: no two samples carry
\* the same messageId, every stored message with a classification is
\* referenced by exactly one sample, and a messageId that was set never
\* changes.
C25_OneSamplePerMessage ==
    [][/\ \A m \in 1..MaxMsgs : Cardinality(SamplesOf(samples', m)) <= 1
       /\ \A m \in 1..Len(messages') :
            messages'[m].emotion # Null => Cardinality(SamplesOf(samples', m)) = 1
       /\ \A i \in 1..Len(samples) :
            samples[i].messageId # 0 => samples'[i].messageId = samples[i].messageId]_vars

\* the request's text was classified by the fallback, and its sample step is over
FallbackRecorded(r) ==
    /\ IsSend(r) \/ IsAws(r)
    /\ Classified(r) /\ ~req[r].providerOk
    /\ req[r].pc \notin {"idle", "analyze", "saveEmotion"}

\* C26: when the fallback classified the text, the pipeline stores a sample
\* whose processedBy names the fallback and takes the trigger decision on it
\* (the store accepting the write).
C26_FallbackSampleStored ==
    \A r \in Reqs :
      (FallbackRecorded(r) /\ ~req[r].sampleFault) =>
        /\ req[r].savedEmotion # 0
        /\ samples[req[r].savedEmotion].processedBy = "local-fallback"
        /\ req[r].trigger \in {"yes", "no"}

\* C27: when the store refuses the sample, the message is still stored and
\* answered with success, without analytics: no emotion data on the message,
\* no sample linked to it, no entry appended to the history, no support
\* notification (the store accepting the other writes).
C27_SampleFailureIsNotFatal ==
    \A r \in Reqs :
      (/\ TextOfParticipant(r) /\ Finished(r) /\ Classified(r)
       /\ req[r].sampleFault /\ ~req[r].storeFault /\ ~req[r].historyFault) =>
        /\ req[r].status = 201
        /\ req[r].message # 0
        /\ messages[req[r].message].emotion = Null
        /\ SamplesOf(samples, req[r].message) = {}
        /\ ~req[r].appended
        /\ ~req[r].supportSent

\* C28: a message is linked to the sample of its own classification, and no
\* sample created by send-message carries the messageId of a message it was
\* not created for (the store accepting the writes).
C28_LinkedToOwnSample ==
    /\ \A r \in Reqs :
         (/\ TextOfParticipant(r) /\ Finished(r) /\ req[r].savedEmotion # 0
          /\ NoFault(r)) =>
           /\ req[r].message # 0
           /\ samples[req[r].savedEmotion].messageId = req[r].message
    /\ \A i \in 1..Len(samples) :
         (samples[i].roomId # "null" /\ samples[i].messageId # 0) =>
           /\ samples[i].messageId <= Len(messages)
           /\ messages[samples[i].messageId].sender = samples[i].userId
           /\ messages[samples[i].messageId].content = samples[i].text
           /\ messages[samples[i].messageId].emotion # Null

\* C29: a sample with fcmNotificationSent = true has a score <= -0.6 and the
\* dispatcher was invoked for it, once, with the non-empty list of its
\* author's active tokens, and returned without raising; a dispatch that
\* raised leaves the flag false.
C29_FlagImpliesReturnedDispatch ==
    [][/\ \A i \in 1..Len(samples') :
            /\ samples'[i].fcmNotificationSent =>
                 /\ samples'[i].sentimentScore <= -600
                 /\ supportAttempts'[i] = 1
            /\ (/\ samples'[i].fcmNotificationSent
                /\ (i > Len(samples) \/ ~samples[i].fcmNotificationSent)) =>
                 \E r \in Reqs :
                   /\ req[r].savedEmotion = i
                   /\ req[r].supportSent /\ req[r].notificationSent
                   /\ req[r].supportTokens # <<>>
                   /\ req[r].supportTokens = ActiveOf(req[r].userId)
       /\ \A r \in Reqs :
            (/\ req'[r].supportSent /\ req'[r].pc # "supportSent"
             /\ ~req'[r].notificationSent) =>
              ~samples'[req'[r].savedEmotion].fcmNotificationSent]_vars

\* /analyze-with-support wrote the flag after the dispatch to the one active
\* token of the author returned
C29_Witness ==
    \E r \in Reqs :
      /\ IsAws(r) /\ req[r].savedEmotion # 0
      /\ samples[req[r].savedEmotion].fcmNotificationSent
      /\ samples[req[r].savedEmotion].sentimentScore <= -600
      /\ req[r].supportTokens = <<"tB">>
      /\ supportAttempts[req[r].savedEmotion] = 1

\* the active tokens of the room's other participants who enabled push
RecipientTokens(r) ==
    UNION {Range(ActiveOf(u)) :
             u \in {v \in Range(Participants[req[r].roomId]) \ {req[r].userId} : push[v]}}

====
